---- MODULE Spec2Model ----
(***************************************************************************)
(* Model of setup.py of cmdstanpy: the module-level script that reads the  *)
(* package version out of cmdstanpy/_version.py with a regular expression  *)
(* and hands it to setuptools.setup.                                       *)
(*                                                                         *)
(* Text is modelled as a sequence of one-character strings, so that the    *)
(* regular expression is matched character by character.                   *)
(***************************************************************************)
EXTENDS Integers, Sequences, FiniteSets, TLC

\* Largest number of chunks the text of cmdstanpy/_version.py is built from.
MaxChunks == 5

\* The literal prefix of the pattern "__version__ = '(.*?)'" (setup.py:17).
Literal == <<"_", "_", "v", "e", "r", "s", "i", "o", "n", "_", "_", " ", "=", " ", "'">>

\* The literal prefix without its opening quote: a near miss of the pattern.
LiteralNoQuote == SubSeq(Literal, 1, Len(Literal) - 1)

\* The pieces the text of cmdstanpy/_version.py is put together from.
Chunks == {Literal, LiteralNoQuote, <<"'">>, <<"\n">>, <<"1">>, <<"_">>}

RECURSIVE Flatten(_)
Flatten(cs) == IF cs = <<>> THEN <<>> ELSE Head(cs) \o Flatten(Tail(cs))

ChunkSeqs == UNION {[1..n -> Chunks] : n \in 0..MaxChunks}

\* Every text cmdstanpy/_version.py may hold, as read in text mode.
FileTexts == {Flatten(cs) : cs \in ChunkSeqs}

None == [matched |-> FALSE]

\* The literal part of the pattern matches s at position i.
LiteralAt(s, i) ==
    /\ i + Len(Literal) - 1 <= Len(s)
    /\ \A d \in 1..Len(Literal) : s[i + d - 1] = Literal[d]

\* The lazy group: (.*?) takes one more character only when the closing
\* quote does not match here; "." takes any character but a newline.
LazyGroupGreedy(s, from, k) ==
    LET ends == {j \in from..Len(s) :
                    /\ s[j] = "'"
                    /\ \A m \in from..(j - 1) : s[m] # "\n"}
    IN  IF ends = {} THEN None
        ELSE LET j == CHOOSE e \in ends : \A f \in ends : f <= e
             IN  [matched |-> TRUE, group1 |-> SubSeq(s, from, j - 1)]

RECURSIVE LazyGroup(_, _, _)
LazyGroup(s, from, k) ==
    IF k > Len(s) THEN None
    ELSE IF s[k] = "'" THEN [matched |-> TRUE, group1 |-> SubSeq(s, from, k - 1)]
    ELSE IF s[k] # "\n" THEN LazyGroup(s, from, k + 1)
    ELSE None

\* One attempt of the pattern at start position i.
MatchAt(s, i) ==
    IF LiteralAt(s, i)
    THEN LazyGroup(s, i + Len(Literal), i + Len(Literal))
    ELSE None

\* re.search: the attempt at the leftmost start position that matches.
RECURSIVE SearchFrom(_, _)
SearchFrom(s, i) ==
    IF i > Len(s) + 1 THEN None
    ELSE IF MatchAt(s, i).matched THEN MatchAt(s, i)
    ELSE SearchFrom(s, i + 1)

re_search(s) == SearchFrom(s, 1)

VARIABLES
    version_file_exists,  \* cmdstanpy/_version.py can be opened
    version_file_text,    \* what cmdstanpy/_version.py holds
    readme_exists,        \* README.md can be opened
    pc,                   \* position of the script
    version_contents,     \* local of get_version
    version,              \* the value of the keyword argument version=
    long_description,     \* the value of the keyword argument long_description=
    setup_called,         \* setuptools.setup has been called
    setup_version,        \* the version setuptools.setup was given
    error                 \* the exception that ended the script

vars == <<version_file_exists, version_file_text, readme_exists, pc,
          version_contents, version, long_description, setup_called,
          setup_version, error>>

Unset == <<"unset">>

Init ==
    /\ version_file_exists \in BOOLEAN
    /\ version_file_text \in FileTexts
    /\ readme_exists \in BOOLEAN
    /\ pc = "start"
    /\ version_contents = Unset
    /\ version = Unset
    /\ long_description = Unset
    /\ setup_called = FALSE
    /\ setup_version = Unset
    /\ error = "none"

\* get_version, line 15: open(os.path.join('cmdstanpy', '_version.py'))
get_version_open ==
    /\ pc = "start"
    /\ IF version_file_exists
       THEN pc' = "opened" /\ error' = error
       ELSE pc' = "raised" /\ error' = "FileNotFoundError"
    /\ UNCHANGED <<version_file_exists, version_file_text, readme_exists,
                   version_contents, version, long_description, setup_called,
                   setup_version>>

\* get_version, line 16: version_contents = version_file.read()
get_version_read ==
    /\ pc = "opened"
    /\ version_contents' = version_file_text
    /\ pc' = "read"
    /\ UNCHANGED <<version_file_exists, version_file_text, readme_exists,
                   version, long_description, setup_called, setup_version,
                   error>>

\* get_version, line 17: return re.search(...).group(1); the value becomes
\* the keyword argument version= of line 46. A failed search returns None,
\* and None.group raises AttributeError.
get_version_search ==
    /\ pc = "read"
    /\ LET m == re_search(version_contents)
       IN  IF m.matched
           THEN version' = m.group1 /\ pc' = "version_done" /\ error' = error
           ELSE version' = version /\ pc' = "raised" /\ error' = "AttributeError"
    /\ UNCHANGED <<version_file_exists, version_file_text, readme_exists,
                   version_contents, long_description, setup_called,
                   setup_version>>

\* readme_contents, lines 8-11, evaluated for long_description= of line 48.
readme_contents ==
    /\ pc = "version_done"
    /\ IF readme_exists
       THEN long_description' = <<"README">> /\ pc' = "args_done" /\ error' = error
       ELSE long_description' = long_description /\ pc' = "raised"
            /\ error' = "FileNotFoundError"
    /\ UNCHANGED <<version_file_exists, version_file_text, readme_exists,
                   version_contents, version, setup_called, setup_version>>

\* setuptools.setup(...), lines 44-57, once every argument is evaluated.
setup ==
    /\ pc = "args_done"
    /\ setup_called' = TRUE
    /\ setup_version' = version
    /\ pc' = "done"
    /\ UNCHANGED <<version_file_exists, version_file_text, readme_exists,
                   version_contents, version, long_description, error>>

Next ==
    \/ get_version_open
    \/ get_version_read
    \/ get_version_search
    \/ readme_contents
    \/ setup

Spec == Init /\ [][Next]_vars

----
\* The occurrences the regular expression can match: the literal at i, then
\* text without quote or newline, then the closing quote at j.
LineOccurrences(s) ==
    {i \in 1..Len(s) :
        /\ LiteralAt(s, i)
        /\ \E j \in (i + Len(Literal))..Len(s) :
              /\ s[j] = "'"
              /\ \A m \in (i + Len(Literal))..(j - 1) : s[m] \notin {"'", "\n"}}

FirstOf(S) == CHOOSE i \in S : \A j \in S : i <= j

\* The text between the quotes of the occurrence starting at i.
QuotedText(s, i) ==
    LET from == i + Len(Literal)
        j == FirstOf({e \in from..Len(s) : s[e] = "'"})
    IN  SubSeq(s, from, j - 1)

\* The occurrences as the claim words them: the literal at i and a later
\* single quote, whatever lies between.
QuoteOccurrences(s) ==
    {i \in 1..Len(s) :
        /\ LiteralAt(s, i)
        /\ \E j \in (i + Len(Literal))..Len(s) : s[j] = "'"}

\* get_version has been evaluated on a file that could be opened.
Searched == pc \notin {"start", "opened", "read"} /\ version_file_exists

\* C10 (as amended): the version handed to setuptools.setup is the string
\* get_version returned, which is the text between the quotes of the first
\* occurrence of __version__ = '...' whose quoted text holds no newline (and
\* ends at the next single quote); when the file holds no such occurrence,
\* get_version raises AttributeError and setuptools.setup is never called.
C10_VersionFromFirstLineOccurrence ==
    /\ setup_called => setup_version = version
    /\ Searched =>
          IF LineOccurrences(version_file_text) # {}
          THEN /\ version = QuotedText(version_file_text,
                                       FirstOf(LineOccurrences(version_file_text)))
               /\ (pc = "raised" => error = "FileNotFoundError")
          ELSE /\ pc = "raised"
               /\ error = "AttributeError"
               /\ version = Unset
    /\ (LineOccurrences(version_file_text) = {} \/ ~version_file_exists)
          => ~setup_called

\* C10 witness: setup has been called with a version found at the second
\* start position tried, the first one being cut off by a newline.
C10_Witness ==
    /\ pc = "done"
    /\ setup_called
    /\ Len(setup_version) > 0
    /\ Cardinality(QuoteOccurrences(version_file_text)) > 1
    /\ FirstOf(LineOccurrences(version_file_text))
          # FirstOf(QuoteOccurrences(version_file_text))

\* C10 (original): the version is the text between the quotes of the first
\* occurrence of the literal that is followed by a single quote, ending at
\* the next single quote; without such an occurrence get_version raises and
\* setuptools.setup is never called.
C10_Original ==
    /\ setup_called => setup_version = version
    /\ Searched =>
          IF QuoteOccurrences(version_file_text) # {}
          THEN /\ version = QuotedText(version_file_text,
                                       FirstOf(QuoteOccurrences(version_file_text)))
               /\ (pc = "raised" => error = "FileNotFoundError")
          ELSE /\ pc = "raised"
               /\ error = "AttributeError"
    /\ QuoteOccurrences(version_file_text) = {} => ~setup_called
====
